---- MODULE Spec2Model ----
(***************************************************************************)
(* Model of src/Efeito.py: PCATEffectExtractor reads a region of the sheet *)
(* EFEITO from a fixed list of workbooks, buckets the tables by the year   *)
(* whose decimal string occurs in the file path, and writes one workbook   *)
(* with one sheet per year.                                                *)
(*                                                                         *)
(* A path is a sequence of one-character strings, so that the substring    *)
(* test `str(year) in file_path` is computed and not assumed.  A table     *)
(* (DataFrame) is a sequence of rows <<Arquivo_Origem, Caminho_Arquivo,    *)
(* cell>>.  The filesystem (which source files exist and are readable,     *)
(* whether the output directory exists, the output workbook) is part of    *)
(* the state; it outlives a process, the extractor object does not.        *)
(***************************************************************************)
EXTENDS Integers, Sequences, FiniteSets, TLC

\* Bounds of the model.
MaxFiles == 2
MaxYears == 2
MaxRuns == 2

VARIABLES
    years,             \* config.years
    files_to_process,  \* self.files_to_process: sequence of <<path, description>>
    data_by_year,      \* self.data_by_year: year -> sequence of tables
    disk,              \* source files: path -> "missing" | "unreadable" | "ok"
    dirExists,         \* os.path.exists(self.output_folder)
    book,              \* PCAT_Efeito_Consolidado.xlsx on disk
    prevBook,          \* the workbook as the previous process left it
    pc,                \* position of the running process
    idx,               \* position of the loop of process_files
    log,               \* records emitted by logging in this process
    calls,             \* methods entered in this process, in order
    runs               \* number of processes started so far

vars == <<years, files_to_process, data_by_year, disk, dirExists, book,
          prevBook, pc, idx, log, calls, runs>>

----------------------------------------------------------------------------
\* Values the configuration and the environment are drawn from.

EmptyPath == <<>>
Path2020 == <<"a", "2", "0", "2", "0">>
Path2021and2020 == <<"2", "0", "2", "1", "b", "2", "0", "2", "0">>
Path2025 == <<"c", "2", "0", "2", "5">>

EntryPool ==
    { <<EmptyPath, "V">>, <<Path2020, "A">>, <<Path2021and2020, "B">>,
      <<Path2025, "C">> }

YearPool == {2020, 2021, 2024}

Range(s) == {s[k] : k \in 1..Len(s)}

SeqsUpTo(S, n) == UNION {[1..m -> S] : m \in 0..n}

\* config.years is a list of distinct years, as range(2014, 2025) is.
YearLists == {s \in SeqsUpTo(YearPool, MaxYears) :
                 \A a, b \in 1..Len(s) : a # b => s[a] # s[b]}

FileLists == SeqsUpTo(EntryPool, MaxFiles)

NonEmptyPaths(files) == {files[k][1] : k \in 1..Len(files)} \ {EmptyPath}

\* The region pd.read_excel returns from a readable workbook.
Region == <<"x", "y">>

\* What extract_data_from_file returns: None, or a DataFrame.
None == <<>>
Some(df) == <<df>>

Absent == [status |-> "absent", sheets |-> <<>>]
Corrupt == [status |-> "corrupt", sheets |-> <<>>]

----------------------------------------------------------------------------
\* Pure functions of the code.

Digit(d) == <<"0", "1", "2", "3", "4", "5", "6", "7", "8", "9">>[d + 1]

\* str(year) for a non-negative int.
RECURSIVE Str(_)
Str(n) == IF n < 10 THEN <<Digit(n)>>
          ELSE Str(n \div 10) \o <<Digit(n % 10)>>

\* Faulty variant of Contains: file_path.startswith(sub).
ContainsPrefixOnly(sub, s) ==
    Len(sub) <= Len(s) /\ SubSeq(s, 1, Len(sub)) = sub

\* sub in s, for sequences of characters.
Contains(sub, s) ==
    \E k \in 0..(Len(s) - Len(sub)) : SubSeq(s, k + 1, k + Len(sub)) = sub

\* The years of config.years whose decimal string occurs in the path.
MatchingIdx(path) == {k \in 1..Len(years) : Contains(Str(years[k]), path)}

Min(S) == CHOOSE m \in S : \A n \in S : m <= n

\* Faulty variant of FirstMatch: the append placed after the loop, where the
\* loop variable still holds the last year.
FirstMatchOrLast(path) ==
    IF MatchingIdx(path) = {} THEN Len(years) ELSE Min(MatchingIdx(path))

\* The for/if/break of process_files: the index in config.years of the year
\* that gets the table, 0 when the loop ends without a match.
FirstMatch(path) ==
    IF MatchingIdx(path) = {} THEN 0 ELSE Min(MatchingIdx(path))

\* Faulty variant of AppendTo: insert(0, df).
Prepend(buckets, year, df) ==
    [buckets EXCEPT ![year] = <<df>> \o @]

\* self.data_by_year[year].append(df)
AppendTo(buckets, year, df) ==
    [buckets EXCEPT ![year] = Append(@, df)]

\* Faulty variant of Bucket: the loop without its break.
BucketAllMatching(buckets, path, df) ==
    [y \in DOMAIN buckets |->
        IF \E k \in MatchingIdx(path) : years[k] = y
        THEN Append(buckets[y], df) ELSE buckets[y]]

\* The whole year loop applied to one extracted table.
Bucket(buckets, path, df) ==
    IF FirstMatch(path) = 0 THEN buckets
    ELSE AppendTo(buckets, years[FirstMatch(path)], df)

\* The DataFrame extract_data_from_file builds: the region with the two
\* identifying columns inserted in front.
Table(file_info) ==
    [r \in 1..Len(Region) |-> <<file_info[2], file_info[1], Region[r]>>]

\* Faulty variant of ExtractDataFromFile: an empty DataFrame on failure.
ExtractNeverNone(file_info) ==
    IF disk[file_info[1]] = "ok" THEN Some(Table(file_info)) ELSE Some(<<>>)

\* extract_data_from_file: the table, or None when pd.read_excel raises.
ExtractDataFromFile(file_info) ==
    IF disk[file_info[1]] = "ok" THEN Some(Table(file_info)) ELSE None

\* pd.concat(tables, ignore_index=True): the rows stacked in list order.
RECURSIVE Concat(_)
Concat(tables) ==
    IF tables = <<>> THEN <<>>
    ELSE Head(tables) \o Concat(Tail(tables))

\* Faulty variant of Sheets: a sheet for every year, empty bucket or not.
RECURSIVE SheetsEveryYear(_, _)
SheetsEveryYear(ys, buckets) ==
    IF ys = <<>> THEN <<>>
    ELSE <<[name |-> Str(Head(ys)), rows |-> Concat(buckets[Head(ys)])]>>
         \o SheetsEveryYear(Tail(ys), buckets)

\* The sheets the writer holds after the year loop of save_consolidated_file.
RECURSIVE Sheets(_, _)
Sheets(ys, buckets) ==
    IF ys = <<>> THEN <<>>
    ELSE (IF buckets[Head(ys)] # <<>>
          THEN <<[name |-> Str(Head(ys)), rows |-> Concat(buckets[Head(ys)])]>>
          ELSE <<>>)
         \o Sheets(Tail(ys), buckets)

\* The records the year loop of save_consolidated_file logs.
RECURSIVE YearLog(_, _)
YearLog(ys, buckets) ==
    IF ys = <<>> THEN <<>>
    ELSE <<IF buckets[Head(ys)] # <<>>
           THEN <<"INFO", "ano_salvo", Head(ys)>>
           ELSE <<"WARNING", "sem_dados", Head(ys)>>>>
         \o YearLog(Tail(ys), buckets)

\* Faulty variant of AnyPath: the guard tests the list, not the paths.
AnyFileListed == files_to_process # <<>>

\* any(path for path, _ in self.files_to_process)
AnyPath == \E k \in 1..Len(files_to_process) : files_to_process[k][1] # EmptyPath

\* Faulty variant of NewBuckets: the buckets outlive the extractor.
KeepBuckets == data_by_year

\* {year: [] for year in self.config.years}
NewBuckets == [y \in Range(years) |-> <<>>]

----------------------------------------------------------------------------
Init ==
    /\ years \in YearLists
    /\ files_to_process \in FileLists
    /\ disk \in [NonEmptyPaths(files_to_process) -> {"missing", "unreadable", "ok"}]
    /\ dirExists \in BOOLEAN
    /\ book = Absent
    /\ prevBook = Absent
    /\ data_by_year = [y \in Range(years) |-> <<>>]
    /\ pc = "run"
    /\ idx = 0
    /\ log = <<>>
    /\ calls = <<>>
    /\ runs = 1

----------------------------------------------------------------------------
\* run, lines 150-157: the start message and the guard.
Run ==
    /\ pc = "run"
    /\ calls' = Append(calls, <<"run", 0>>)
    /\ IF AnyPath
       THEN /\ log' = Append(log, <<"INFO", "iniciando", 0>>)
            /\ pc' = "mkdir"
       ELSE /\ log' = log \o << <<"INFO", "iniciando", 0>>,
                                <<"ERROR", "nenhum_arquivo", 0>> >>
            /\ pc' = "exit"
    /\ UNCHANGED <<years, files_to_process, data_by_year, disk, dirExists,
                   book, prevBook, idx, runs>>

\* _create_output_directory, lines 70-74.  os.makedirs can raise (the working
\* directory is not writable); nothing in run catches it, so it reaches the
\* except of __main__ (lines 171-172), which logs it as critical.
CreateOutputDirectory ==
    /\ pc = "mkdir"
    /\ calls' = Append(calls, <<"_create_output_directory", 0>>)
    /\ IF dirExists
       THEN /\ pc' = "process_files"
            /\ UNCHANGED <<dirExists, log>>
       ELSE \E made \in BOOLEAN :
              IF made
              THEN /\ dirExists' = TRUE
                   /\ log' = Append(log, <<"INFO", "diretorio_criado", 0>>)
                   /\ pc' = "process_files"
              ELSE /\ dirExists' = FALSE
                   /\ log' = Append(log, <<"CRITICAL", "erro_fatal", 0>>)
                   /\ pc' = "exit"
    /\ UNCHANGED <<years, files_to_process, data_by_year, disk, book,
                   prevBook, idx, runs>>

\* Where the loop of process_files goes after entry k.
LoopNext(k) ==
    IF k < Len(files_to_process)
    THEN /\ pc' = "loop" /\ idx' = k + 1
    ELSE /\ pc' = "save" /\ idx' = 0

\* process_files, line 109: the loop starts.
ProcessFiles ==
    /\ pc = "process_files"
    /\ calls' = Append(calls, <<"process_files", 0>>)
    /\ LoopNext(0)
    /\ UNCHANGED <<years, files_to_process, data_by_year, disk, dirExists,
                   book, prevBook, log, runs>>

\* Lines 111-112: an entry without a path is skipped silently.
ProcessEmptyPath ==
    /\ pc = "loop"
    /\ files_to_process[idx][1] = EmptyPath
    /\ LoopNext(idx)
    /\ UNCHANGED <<years, files_to_process, data_by_year, disk, dirExists,
                   book, prevBook, log, calls, runs>>

\* Faulty variant of ProcessMissing: break in place of continue.
ProcessMissingBreaks ==
    /\ pc = "loop"
    /\ files_to_process[idx][1] # EmptyPath
    /\ disk[files_to_process[idx][1]] = "missing"
    /\ calls' = Append(calls, <<"os.path.exists", idx>>)
    /\ log' = Append(log, <<"ERROR", "nao_encontrado", files_to_process[idx][1]>>)
    /\ pc' = "save"
    /\ idx' = 0
    /\ UNCHANGED <<years, files_to_process, data_by_year, disk, dirExists,
                   book, prevBook, runs>>

\* Lines 114-116: a path that does not exist is logged and skipped.
ProcessMissing ==
    /\ pc = "loop"
    /\ files_to_process[idx][1] # EmptyPath
    /\ disk[files_to_process[idx][1]] = "missing"
    /\ calls' = Append(calls, <<"os.path.exists", idx>>)
    /\ log' = Append(log, <<"ERROR", "nao_encontrado", files_to_process[idx][1]>>)
    /\ LoopNext(idx)
    /\ UNCHANGED <<years, files_to_process, data_by_year, disk, dirExists,
                   book, prevBook, runs>>

\* Lines 118-127, with extract_data_from_file (lines 86-105) inside: the file
\* exists, it is read, and the table, when there is one, goes to its year.
ProcessExisting ==
    /\ pc = "loop"
    /\ files_to_process[idx][1] # EmptyPath
    /\ disk[files_to_process[idx][1]] # "missing"
    /\ LET file_info == files_to_process[idx]
           path == file_info[1]
           df == ExtractDataFromFile(file_info)
           y == FirstMatch(path)
       IN  /\ calls' = calls \o << <<"os.path.exists", idx>>,
                                   <<"extract_data_from_file", idx>> >>
           /\ data_by_year' =
                 IF df = None THEN data_by_year
                 ELSE Bucket(data_by_year, path, df[1])
           /\ log' = log
                 \o << <<"INFO", "processando", file_info[2]>> >>
                 \o (IF df = None
                     THEN << <<"ERROR", "erro_ao_processar", path>> >>
                     ELSE IF y = 0 THEN <<>>
                     ELSE << <<"INFO", "adicionado", years[y]>> >>)
    /\ LoopNext(idx)
    /\ UNCHANGED <<years, files_to_process, disk, dirExists, book, prevBook,
                   runs>>

\* Faulty variant of SaveConsolidatedFile: without the except of line 147 a
\* write failure leaves run and reaches the except of __main__.
SaveRaises ==
    /\ pc = "save"
    /\ calls' = Append(calls, <<"save_consolidated_file", 0>>)
    /\ \E outcome \in {"ok", "open_fails", "close_fails"} :
         CASE outcome = "ok" ->
                /\ book' = [status |-> "ok", sheets |-> Sheets(years, data_by_year)]
                /\ log' = log \o YearLog(years, data_by_year)
                              \o << <<"INFO", "consolidado_salvo", 0>> >>
                /\ pc' = "finish"
           [] outcome = "open_fails" ->
                /\ book' = book
                /\ log' = Append(log, <<"CRITICAL", "erro_fatal", 0>>)
                /\ pc' = "exit"
           [] outcome = "close_fails" ->
                /\ book' = Corrupt
                /\ log' = log \o YearLog(years, data_by_year)
                              \o << <<"CRITICAL", "erro_fatal", 0>> >>
                /\ pc' = "exit"
    /\ UNCHANGED <<years, files_to_process, data_by_year, disk, dirExists,
                   prevBook, idx, runs>>

\* save_consolidated_file, lines 129-148.  The writer can fail when it opens
\* the file (nothing is written, nothing is logged for the years) or when it
\* saves on leaving the with block (the file is left unusable); either way
\* the except of line 147 logs the error and the method returns.
SaveConsolidatedFile ==
    /\ pc = "save"
    /\ calls' = Append(calls, <<"save_consolidated_file", 0>>)
    /\ \E outcome \in {"ok", "open_fails", "close_fails"} :
         CASE outcome = "ok" ->
                /\ book' = [status |-> "ok", sheets |-> Sheets(years, data_by_year)]
                /\ log' = log \o YearLog(years, data_by_year)
                              \o << <<"INFO", "consolidado_salvo", 0>> >>
           [] outcome = "open_fails" ->
                /\ book' = book
                /\ log' = Append(log, <<"ERROR", "erro_ao_salvar", 0>>)
           [] outcome = "close_fails" ->
                /\ book' = Corrupt
                /\ log' = log \o YearLog(years, data_by_year)
                              \o << <<"ERROR", "erro_ao_salvar", 0>> >>
    /\ pc' = "finish"
    /\ UNCHANGED <<years, files_to_process, data_by_year, disk, dirExists,
                   prevBook, idx, runs>>

\* run, line 163: the closing message.
Finish ==
    /\ pc = "finish"
    /\ log' = Append(log, <<"INFO", "concluido", 0>>)
    /\ pc' = "exit"
    /\ UNCHANGED <<years, files_to_process, data_by_year, disk, dirExists,
                   book, prevBook, idx, calls, runs>>

\* __main__, lines 166-170: the program is started again on the same
\* filesystem; a new extractor is constructed, with new buckets (line 68).
Main ==
    /\ pc = "exit"
    /\ runs < MaxRuns
    /\ runs' = runs + 1
    /\ data_by_year' = NewBuckets
    /\ prevBook' = book
    /\ pc' = "run"
    /\ idx' = 0
    /\ log' = <<>>
    /\ calls' = <<>>
    /\ UNCHANGED <<years, files_to_process, disk, dirExists, book>>

Next ==
    \/ Run
    \/ CreateOutputDirectory
    \/ ProcessFiles
    \/ ProcessEmptyPath
    \/ ProcessMissing
    \/ ProcessExisting
    \/ SaveConsolidatedFile
    \/ Finish
    \/ Main

Spec == Init /\ [][Next]_vars

----------------------------------------------------------------------------
\* Vocabulary of the properties.  Containment and the row stacking are
\* written here a second time, independently of the operators above.

PathOf(k) == files_to_process[k][1]

Entries == 1..Len(files_to_process)

IsMissing(k) == PathOf(k) # EmptyPath /\ disk[PathOf(k)] = "missing"
IsUnreadable(k) == PathOf(k) # EmptyPath /\ disk[PathOf(k)] = "unreadable"
IsReadable(k) == PathOf(k) # EmptyPath /\ disk[PathOf(k)] = "ok"

RECURSIVE Occurs(_, _)
Occurs(sub, s) ==
    IF Len(s) < Len(sub) THEN FALSE
    ELSE \/ \A c \in 1..Len(sub) : s[c] = sub[c]
         \/ Occurs(sub, Tail(s))

YearsIn(path) == {y \in Range(years) : Occurs(Str(y), path)}

FirstConfigured(S) ==
    years[CHOOSE k \in 1..Len(years) :
             /\ years[k] \in S
             /\ \A j \in 1..(k - 1) : years[j] \notin S]

InBucket(df, y) == \E j \in 1..Len(data_by_year[y]) : data_by_year[y][j] = df

Called(name, k) == \E c \in 1..Len(calls) : calls[c] = <<name, k>>

TimesCalled(name, k) == Cardinality({c \in 1..Len(calls) : calls[c] = <<name, k>>})

Logged(msg) == \E j \in 1..Len(log) : log[j][2] = msg

\* process_files has returned in the running process.
ProcessDone == Called("process_files", 0) /\ pc \in {"save", "finish", "exit"}

\* save_consolidated_file has returned without a write failure.
SaveDone == pc \in {"finish", "exit"} /\ Logged("consolidado_salvo")

AllPathsEmpty == \A k \in Entries : PathOf(k) = EmptyPath

SheetHasPath(path) ==
    \E s \in 1..Len(book.sheets) : \E r \in 1..Len(book.sheets[s].rows) :
        book.sheets[s].rows[r][2] = path

\* Row r of the tables of bucket b stacked in order (every table has
\* Len(Region) rows).
StackedRow(b, r) == b[((r - 1) \div Len(Region)) + 1][((r - 1) % Len(Region)) + 1]

IsSubsequenceOfFiles(b) ==
    \E f \in [1..Len(b) -> Entries] :
        /\ \A a, c \in 1..Len(b) : a < c => f[a] < f[c]
        /\ \A a \in 1..Len(b) : b[a] = Table(files_to_process[f[a]])

IsPrefix(a, b) == Len(a) <= Len(b) /\ SubSeq(b, 1, Len(a)) = a

----------------------------------------------------------------------------
\* C1: once process_files has returned, the table of every entry that exists,
\* is read successfully and whose path contains the decimal string of exactly
\* one configured year y is in data_by_year[y] and in no other bucket.
C1_OneYearBucket ==
    ProcessDone =>
        \A k \in Entries :
            (IsReadable(k) /\ Cardinality(YearsIn(PathOf(k))) = 1) =>
                \A y \in Range(years) :
                    InBucket(Table(files_to_process[k]), y)
                        <=> (y \in YearsIn(PathOf(k)))

C1_Witness ==
    /\ ProcessDone
    /\ Len(years) = 2
    /\ \E k \in Entries :
         /\ IsReadable(k)
         /\ YearsIn(PathOf(k)) = {years[2]}
         /\ InBucket(Table(files_to_process[k]), years[2])

\* C2: after save_consolidated_file returns without a write failure, the
\* sheets of the workbook are, in order, one sheet named str(year) for each
\* configured year with a non-empty bucket, and no other sheet.
C2_SheetNames ==
    SaveDone =>
        LET filled == SelectSeq(years, LAMBDA y : data_by_year[y] # <<>>)
        IN  /\ book.status = "ok"
            /\ Len(book.sheets) = Len(filled)
            /\ \A s \in 1..Len(filled) : book.sheets[s].name = Str(filled[s])

C2_Witness ==
    /\ SaveDone
    /\ Len(years) = 2
    /\ data_by_year[years[1]] = <<>>
    /\ data_by_year[years[2]] # <<>>
    /\ Len(book.sheets) = 1

\* C3: an existing, readable file whose path contains no configured year is
\* extracted, its table is in no bucket and in no sheet of the workbook, and
\* no error, warning or critical record is logged about it.
C3_SilentDrop ==
    \A k \in Entries :
        (IsReadable(k) /\ YearsIn(PathOf(k)) = {}) =>
            /\ ProcessDone => Called("extract_data_from_file", k)
            /\ \A y \in Range(years) : ~InBucket(Table(files_to_process[k]), y)
            /\ SaveDone => ~SheetHasPath(PathOf(k))
            /\ \A j \in 1..Len(log) :
                 log[j][2] \in {"nao_encontrado", "erro_ao_processar"}
                     => log[j][3] # PathOf(k)

C3_Witness ==
    /\ SaveDone
    /\ years # <<>>
    /\ \E k \in Entries :
         /\ PathOf(k) = Path2025
         /\ IsReadable(k)
         /\ YearsIn(PathOf(k)) = {}
         /\ Called("extract_data_from_file", k)

\* C4: for an entry whose path is not empty and does not exist,
\* extract_data_from_file is never called, the step leaves every bucket as it
\* was, and the loop goes on: every later entry with a path is examined.
C4_MissingState ==
    \A k \in Entries :
        IsMissing(k) =>
            /\ ~Called("extract_data_from_file", k)
            /\ ProcessDone =>
                 \A j \in Entries :
                    (j > k /\ PathOf(j) # EmptyPath) => Called("os.path.exists", j)

C4_MissingStep ==
    (pc = "loop" /\ IsMissing(idx)) =>
        /\ data_by_year' = data_by_year
        /\ pc' = IF idx < Len(files_to_process) THEN "loop" ELSE "save"
        /\ idx < Len(files_to_process) => idx' = idx + 1

C4_MissingSkipped == [](C4_MissingState) /\ [][C4_MissingStep]_vars

C4_Witness ==
    /\ ProcessDone
    /\ \E k, j \in Entries :
         /\ k < j
         /\ IsMissing(k)
         /\ IsReadable(j)
         /\ Called("extract_data_from_file", j)

\* C5: when every configured entry has an empty path, run logs an error and
\* returns at once: no directory is created, no file is checked or read, no
\* bucket changes, no workbook is written, no success message is logged.
C5_GuardState ==
    (AllPathsEmpty /\ pc # "run") =>
        /\ pc = "exit"
        /\ calls = << <<"run", 0>> >>
        /\ Logged("nenhum_arquivo")
        /\ ~Logged("concluido")
        /\ book = Absent
        /\ \A y \in Range(years) : data_by_year[y] = <<>>

C5_GuardStep ==
    (AllPathsEmpty /\ pc = "run") =>
        /\ pc' = "exit"
        /\ dirExists' = dirExists
        /\ book' = book
        /\ data_by_year' = data_by_year
        /\ log'[Len(log')] = <<"ERROR", "nenhum_arquivo", 0>>

C5_EmptyGuard == [](C5_GuardState) /\ [][C5_GuardStep]_vars

C5_Witness ==
    /\ pc = "exit"
    /\ AllPathsEmpty
    /\ Len(files_to_process) = 2
    /\ ~dirExists
    /\ Logged("nenhum_arquivo")

\* C6: a second run on the same inputs with the output directory in place
\* writes a workbook with the same sheets and the same rows in the same
\* order, and the directory step changes nothing when the directory exists.
C6_SameBook ==
    (SaveDone /\ prevBook.status = "ok") => book = prevBook

C6_DirStep ==
    (pc = "mkdir" /\ dirExists) =>
        /\ dirExists'
        /\ log' = log
        /\ book' = book
        /\ pc' = "process_files"

C6_Idempotent == [](C6_SameBook) /\ [][C6_DirStep]_vars

C6_Witness ==
    /\ runs = 2
    /\ SaveDone
    /\ prevBook.status = "ok"
    /\ Len(book.sheets) = 1
    /\ Len(book.sheets[1].rows) = 2 * Len(Region)

\* C7: every bucket is a subsequence of the configured file list, no step of
\* a process removes or reorders a bucket element, and the rows of a year's
\* sheet are the tables of its bucket stacked in bucket order.
C7_BucketState ==
    /\ \A y \in Range(years) : IsSubsequenceOfFiles(data_by_year[y])
    /\ SaveDone =>
         \A s \in 1..Len(book.sheets) :
            \E y \in Range(years) :
               /\ book.sheets[s].name = Str(y)
               /\ Len(book.sheets[s].rows) = Len(Region) * Len(data_by_year[y])
               /\ \A r \in 1..Len(book.sheets[s].rows) :
                    book.sheets[s].rows[r] = StackedRow(data_by_year[y], r)

C7_BucketStep ==
    runs' = runs =>
        \A y \in Range(years) : IsPrefix(data_by_year[y], data_by_year'[y])

C7_AppendOnly == [](C7_BucketState) /\ [][C7_BucketStep]_vars

C7_Witness ==
    /\ SaveDone
    /\ \E y \in Range(years) :
         /\ Len(data_by_year[y]) = 2
         /\ data_by_year[y][1] # data_by_year[y][2]
         /\ Len(book.sheets[1].rows) = 2 * Len(Region)

\* C8: a successfully extracted table whose path contains the decimal
\* strings of two or more configured years is appended once, to the bucket
\* of the first of them in configured order, and to no other bucket.
C8_FirstMatchStep ==
    (pc = "loop" /\ IsReadable(idx) /\ Cardinality(YearsIn(PathOf(idx))) >= 2) =>
        LET first == FirstConfigured(YearsIn(PathOf(idx)))
        IN  \A y \in Range(years) :
               data_by_year'[y] =
                  IF y = first
                  THEN Append(data_by_year[y], Table(files_to_process[idx]))
                  ELSE data_by_year[y]

C8_FirstMatchWins == [][C8_FirstMatchStep]_vars

C8_Witness ==
    /\ ProcessDone
    /\ years = <<2021, 2020>>
    /\ \E k \in Entries :
         /\ IsReadable(k)
         /\ YearsIn(PathOf(k)) = {2020, 2021}
         /\ InBucket(Table(files_to_process[k]), 2021)

\* C9: when the extraction of an existing file fails, extract_data_from_file
\* returns None, no bucket changes, the file is read once and not again, and
\* the loop goes on with the next entry.
C9_FailState ==
    \A k \in Entries :
        IsUnreadable(k) =>
            /\ ExtractDataFromFile(files_to_process[k]) = None
            /\ TimesCalled("extract_data_from_file", k) <= 1
            /\ ProcessDone =>
                 /\ TimesCalled("extract_data_from_file", k) = 1
                 /\ \A j \in Entries :
                      (j > k /\ PathOf(j) # EmptyPath)
                          => Called("os.path.exists", j)

C9_FailStep ==
    (pc = "loop" /\ IsUnreadable(idx)) =>
        /\ data_by_year' = data_by_year
        /\ pc' = IF idx < Len(files_to_process) THEN "loop" ELSE "save"
        /\ idx < Len(files_to_process) => idx' = idx + 1
        /\ log'[Len(log')] = <<"ERROR", "erro_ao_processar", PathOf(idx)>>

C9_ExtractionFailure == [](C9_FailState) /\ [][C9_FailStep]_vars

C9_Witness ==
    /\ ProcessDone
    /\ \E k, j \in Entries :
         /\ k < j
         /\ IsUnreadable(k)
         /\ YearsIn(PathOf(k)) # {}
         /\ IsReadable(j)
         /\ Called("extract_data_from_file", k)
         /\ Called("extract_data_from_file", j)

\* C10: the three steps of run, in order and once each, followed by the
\* success message.
StepsOfRun ==
    SelectSeq(calls, LAMBDA c : c[1] \in {"_create_output_directory",
                                          "process_files",
                                          "save_consolidated_file"})

RanToSuccess ==
    /\ StepsOfRun = << <<"_create_output_directory", 0>>,
                       <<"process_files", 0>>,
                       <<"save_consolidated_file", 0>> >>
    /\ log[Len(log)] = <<"INFO", "concluido", 0>>

====
